---- MODULE Spec2Model ----
(***************************************************************************)
(* Model of package logx (winterfx/gopkg): the module logger registry      *)
(* (Register, GetLogger, Default over a sync.Map), the Options builder,    *)
(* and context-aware emission (setValueFromContext + the slog backend).    *)
(* Goroutines are the processes; one action is one atomic access to the    *)
(* shared registry, the shared argument array or a sink.                   *)
(***************************************************************************)
EXTENDS Integers, Sequences, FiniteSets, TLC

\* ------------------------------------------------------------------ bounds
NProcs == 2          \* goroutines calling the package concurrently
MaxCalls == 3        \* registry calls made in a run of the registry
MaxSetup == 1        \* Register calls made in a run of the emission path
MaxEmits == 2        \* emission calls made in a run
SharedCap == 3       \* capacity of the argument slice the callers share
SharedLen == 2       \* length of the argument slice the callers share

Procs == 1..NProcs

\* --------------------------------------------------------- slog constants
LevelDebug == -4
LevelInfo == 0
LevelWarn == 4
LevelError == 8

defaultModuleName == "default"

\* Module names the callers pass.
Names == {"", "default", "a"}

\* Output sinks: nil (a nil io.Writer), os.Stdout, a caller's buffer.
NilWriter == "nil"
Stdout == "stdout"
Buf == "buf"

\* ------------------------------------------------------------- Options
\* A map[string]ContextExtractor: isNil distinguishes the nil map of a
\* zero-valued Options from the empty map make() returns.
EmptyMap == [isNil |-> FALSE, m |-> [k \in {} |-> ""]]
NilMap == [isNil |-> TRUE, m |-> [k \in {} |-> ""]]

\* *Options: ptr = "nil" is the nil pointer; panicked records that building
\* the value panicked (assignment to an entry of a nil map).
MkOptions(level, addSource, output, ce) ==
    [ptr |-> "val", level |-> level, addSource |-> addSource,
     output |-> output, contextExtractors |-> ce, panicked |-> FALSE]

NilOptions ==
    [ptr |-> "nil", level |-> 0, addSource |-> FALSE,
     output |-> NilWriter, contextExtractors |-> NilMap, panicked |-> FALSE]

\* &Options{}: every field holds its zero value.
ZeroOptions == MkOptions(0, FALSE, NilWriter, NilMap)

defaultOptions == MkOptions(LevelInfo, TRUE, Stdout, EmptyMap)

WithLevel(level, o) == [o EXCEPT !.level = level]

WithAddSource(addSource, o) == [o EXCEPT !.addSource = addSource]

WithOutput(w, o) ==
    IF w = NilWriter THEN [o EXCEPT !.output = Stdout]
    ELSE [o EXCEPT !.output = w]

WithContextExtractor(key, extractor, o) ==
    IF o.contextExtractors.isNil
    THEN [o EXCEPT !.panicked = TRUE]
    ELSE [o EXCEPT !.contextExtractors.m =
            [k \in (DOMAIN o.contextExtractors.m) \cup {key} |->
                IF k = key THEN extractor ELSE o.contextExtractors.m[k]]]

\* An OptionsFunc value: the modifier and its captured argument.
ApplyOption(f, o) ==
    IF o.panicked THEN o
    ELSE CASE f.fn = "WithLevel" -> WithLevel(f.level, o)
           [] f.fn = "WithAddSource" -> WithAddSource(f.flag, o)
           [] f.fn = "WithOutput" -> WithOutput(f.w, o)
           [] OTHER -> WithContextExtractor(f.key, f.extractor, o)

OptFn(fn, level, flag, w, key, extractor) ==
    [fn |-> fn, level |-> level, flag |-> flag, w |-> w, key |-> key,
     extractor |-> extractor]

RECURSIVE ApplyAll(_, _)
ApplyAll(fs, o) ==
    IF fs = <<>> THEN o ELSE ApplyAll(Tail(fs), ApplyOption(Head(fs), o))

NewOptions(fs) == ApplyAll(fs, defaultOptions)

\* Extractor functions the callers register: the one stored under key k
\* reads the context value k and returns "" when the context lacks it.
ExtractorKeys == {"request_id", "trace_id"}

WithExtractor(key) ==
    OptFn("WithContextExtractor", 0, FALSE, NilWriter, key, key)

\* Options as TestLogxWithContextExtractor builds them, with every
\* modifier used: a Debug level, two extractors, and an output set twice
\* (the later WithOutput wins).
TestOptions ==
    NewOptions(<<OptFn("WithLevel", LevelDebug, FALSE, NilWriter, "", ""),
                 OptFn("WithAddSource", 0, FALSE, NilWriter, "", ""),
                 OptFn("WithOutput", 0, FALSE, NilWriter, "", ""),
                 WithExtractor("request_id"),
                 WithExtractor("trace_id"),
                 OptFn("WithOutput", 0, FALSE, Buf, "", "")>>)

\* The *Options values the callers pass to Register.
OptionInputs == {NilOptions, ZeroOptions, TestOptions}

\* ---------------------------------------------------------------- state
VARIABLES
    moduleLoggers,   \* sync.Map: module name -> *Logx (index into heap)
    heap,            \* the Logx objects constructed so far
    pc,              \* each goroutine's position
    call,            \* each goroutine's current or last registry call
    arr,             \* backing array of the argument slice callers share
    emit,            \* each goroutine's emission call in progress
    sinks,           \* the records written to each sink, in order
    crashed,         \* a goroutine panicked (the process is gone)
    quota,           \* calls the run may still make
    returned,        \* history: handles returned so far, per module name
    origin           \* history: the options each Logx was constructed from

vars ==
    <<moduleLoggers, heap, pc, call, arr, emit, sinks, crashed, quota,
      returned, origin>>

emitVars == <<arr, emit, sinks, crashed>>

\* ------------------------------------------------------------- registry
getModuleNameRaw(name) == name

getModuleName(name) ==
    IF name = "" THEN defaultModuleName ELSE name

\* A bug: nil options are used as they are, not replaced by the defaults.
configLoggerNoDefault(logger, options) ==
    [moduleName |-> logger.moduleName,
     level |-> options.level,
     addSource |-> options.addSource,
     output |-> options.output,
     contextExtractors |-> options.contextExtractors,
     module |-> logger.moduleName]

\* configLogger: the backend is fixed by level, addSource and output and
\* carries the attribute module=<moduleName>; the extractor map is the one
\* of the options.
configLogger(logger, options) ==
    LET o == IF options.ptr = "nil" THEN defaultOptions ELSE options
    IN  [moduleName |-> logger.moduleName,
         level |-> o.level,
         addSource |-> o.addSource,
         output |-> o.output,
         contextExtractors |-> o.contextExtractors,
         module |-> logger.moduleName]

newLogx(moduleName, options) ==
    configLogger([moduleName |-> moduleName], options)

\* sync.Map.Load
Load(key) ==
    IF key \in DOMAIN moduleLoggers
    THEN [h |-> moduleLoggers[key], ok |-> TRUE]
    ELSE [h |-> 0, ok |-> FALSE]

\* sync.Map.Store
Store(key, h) ==
    [k \in (DOMAIN moduleLoggers) \cup {key} |->
        IF k = key THEN h ELSE moduleLoggers[k]]

NoCall ==
    [op |-> "none", name |-> "", moduleName |-> "", options |-> NilOptions,
     seen |-> {}, h |-> 0, ok |-> FALSE, created |-> FALSE, done |-> FALSE]

\* A call enters: seen is the history of handles already returned for the
\* name, as it stands when the call starts.
NewCall(op, name, options) ==
    [op |-> op, name |-> name, moduleName |-> getModuleName(name),
     options |-> options, seen |-> returned[getModuleName(name)],
     h |-> 0, ok |-> FALSE, created |-> FALSE, done |-> FALSE]

\* The call c of goroutine p returns (h, ok).
Return(p, c, h, ok, created) ==
    /\ call' = [call EXCEPT ![p] = [c EXCEPT !.h = h, !.ok = ok,
                                             !.created = created,
                                             !.done = TRUE]]
    /\ returned' = IF h = 0 THEN returned
                   ELSE [returned EXCEPT ![c.moduleName] = @ \cup {h}]
    /\ pc' = [pc EXCEPT ![p] = "idle"]

\* Register, lines 32-33: entry and name normalisation.
RegisterCall(p) ==
    /\ ~crashed
    /\ pc[p] = "idle"
    /\ quota.reg > 0
    /\ quota' = [quota EXCEPT !.reg = @ - 1]
    /\ \E name \in Names, o \in OptionInputs :
          call' = [call EXCEPT ![p] = NewCall("Register", name, o)]
    /\ pc' = [pc EXCEPT ![p] = "reg_load"]
    /\ UNCHANGED <<moduleLoggers, heap, origin, returned, emitVars>>

\* A bug: the Load result is ignored and a handle is always constructed.
RegisterLoadAlwaysNew(p) ==
    /\ ~crashed
    /\ pc[p] = "reg_load"
    /\ pc' = [pc EXCEPT ![p] = "reg_store"]
    /\ UNCHANGED <<call, returned, moduleLoggers, heap, origin, quota, emitVars>>

\* Register, lines 34-35 and 39: the Load, and the return when it hits.
RegisterLoad(p) ==
    /\ ~crashed
    /\ pc[p] = "reg_load"
    /\ LET r == Load(call[p].moduleName)
       IN  IF r.ok
           THEN Return(p, call[p], r.h, TRUE, FALSE)
           ELSE /\ pc' = [pc EXCEPT ![p] = "reg_store"]
                /\ UNCHANGED <<call, returned>>
    /\ UNCHANGED <<moduleLoggers, heap, origin, quota, emitVars>>

\* Register, lines 36-39: construct, Store, return the new handle.
RegisterStore(p) ==
    /\ ~crashed
    /\ pc[p] = "reg_store"
    /\ heap' = Append(heap, newLogx(call[p].moduleName, call[p].options))
    /\ origin' = Append(origin, call[p].options)
    /\ moduleLoggers' = Store(call[p].moduleName, Len(heap'))
    /\ Return(p, call[p], Len(heap'), TRUE, TRUE)
    /\ UNCHANGED <<quota, emitVars>>

\* A bug: GetLogger registers the name it does not find.
GetLoggerCreates(p) ==
    /\ ~crashed
    /\ pc[p] = "idle"
    /\ quota.reg > 0
    /\ quota' = [quota EXCEPT !.reg = @ - 1]
    /\ \E name \in Names :
          LET r == Load(getModuleName(name))
          IN  IF r.ok
              THEN /\ Return(p, NewCall("GetLogger", name, NilOptions),
                             r.h, TRUE, FALSE)
                   /\ UNCHANGED <<moduleLoggers, heap, origin>>
              ELSE /\ heap' = Append(heap, newLogx(getModuleName(name), NilOptions))
                   /\ origin' = Append(origin, NilOptions)
                   /\ moduleLoggers' = Store(getModuleName(name), Len(heap'))
                   /\ Return(p, NewCall("GetLogger", name, NilOptions),
                             Len(heap'), TRUE, TRUE)
    /\ UNCHANGED emitVars

\* GetLogger: one Load under the normalised name.
GetLogger(p) ==
    /\ ~crashed
    /\ pc[p] = "idle"
    /\ quota.reg > 0
    /\ quota' = [quota EXCEPT !.reg = @ - 1]
    /\ \E name \in Names :
          LET r == Load(getModuleName(name))
          IN  Return(p, NewCall("GetLogger", name, NilOptions), r.h, r.ok, FALSE)
    /\ UNCHANGED <<moduleLoggers, heap, origin, emitVars>>

\* Default: GetLogger(defaultModuleName), else Register("", nil).
Default(p) ==
    /\ ~crashed
    /\ pc[p] = "idle"
    /\ quota.reg > 0
    /\ quota' = [quota EXCEPT !.reg = @ - 1]
    /\ LET r == Load(getModuleName(defaultModuleName))
       IN  IF r.h # 0
           THEN Return(p, NewCall("Default", defaultModuleName, NilOptions),
                       r.h, TRUE, FALSE)
           ELSE /\ call' = [call EXCEPT ![p] = NewCall("Default", "", NilOptions)]
                /\ pc' = [pc EXCEPT ![p] = "reg_load"]
                /\ UNCHANGED returned
    /\ UNCHANGED <<moduleLoggers, heap, origin, emitVars>>

\* ------------------------------------------------------------- emission
Str(s) == [kind |-> "str", key |-> "", value |-> s]
Attr(k, v) == [kind |-> "attr", key |-> k, value |-> v]
NilArg == [kind |-> "nil", key |-> "", value |-> ""]

\* The slice the callers share: make([]any, SharedLen, SharedCap), filled
\* with alternating keys and values.
SharedInit ==
    [i \in 1..SharedCap |->
        IF i > SharedLen THEN NilArg
        ELSE Str(IF i % 2 = 1 THEN "k" ELSE "v")]

\* Contexts the callers pass: one lacking both values, one carrying both.
Contexts ==
    {[request_id |-> "", trace_id |-> ""],
     [request_id |-> "test-123", trace_id |-> "t-1"]}

\* The extractor registered under fn, applied to ctx.
Extract(fn, ctx) == ctx[fn]

\* The emission entry points and the level each logs at.
Methods == {"DebugContext", "InfoContext", "WarnContext", "ErrorContext"}

MethodLevel(method) ==
    CASE method = "DebugContext" -> LevelDebug
      [] method = "InfoContext" -> LevelInfo
      [] method = "WarnContext" -> LevelWarn
      [] OTHER -> LevelError

\* Argument lists the callers pass: literal lists (a fresh array of exactly
\* that length) or the shared slice expanded with "...".
LiteralArgs == {<<>>, <<Str("k")>>, <<Str("k"), Str("v")>>}

NoEmit ==
    [h |-> 0, ctx |-> [request_id |-> "", trace_id |-> ""], level |-> 0,
     shared |-> FALSE, len |-> 0, own |-> <<>>, todo |-> {}, passed |-> <<>>]

\* The elements of the args slice of emission e.
Args(e) == IF e.shared THEN SubSeq(arr, 1, e.len) ELSE e.own

\* append(args, x): in place when the backing array has room, else into a
\* new array. Yields the new slice and the shared array.
AppendArg(e, x) ==
    IF e.shared /\ e.len < SharedCap
    THEN [e |-> [e EXCEPT !.len = @ + 1],
          arr |-> [arr EXCEPT ![e.len + 1] = x]]
    ELSE [e |-> [e EXCEPT !.shared = FALSE, !.len = @ + 1,
                          !.own = Append(Args(e), x)],
          arr |-> arr]

\* slog: the key/value list of a record, built from args (argsToAttr).
Field(k, v) == [key |-> k, val |-> v]

RECURSIVE ArgsToAttrs(_)
ArgsToAttrs(args) ==
    IF args = <<>> THEN <<>>
    ELSE LET x == Head(args)
         IN  IF x.kind = "str"
             THEN IF Len(args) = 1
                  THEN <<Field("!BADKEY", x)>>
                  ELSE <<Field(x.value, args[2])>>
                          \o ArgsToAttrs(SubSeq(args, 3, Len(args)))
             ELSE IF x.kind = "attr"
             THEN <<Field(x.key, Str(x.value))>> \o ArgsToAttrs(Tail(args))
             ELSE <<Field("!BADKEY", x)>> \o ArgsToAttrs(Tail(args))

\* XxxContext, entry: the caller's arguments arrive as the slice args.
EmitCall(p) ==
    /\ ~crashed
    /\ pc[p] = "idle"
    /\ quota.emit > 0
    /\ quota' = [quota EXCEPT !.emit = @ - 1]
    /\ \E h \in 1..Len(heap), ctx \in Contexts, method \in Methods,
          shared \in BOOLEAN, lit \in LiteralArgs :
          /\ shared => lit = <<>>
          /\ emit' = [emit EXCEPT ![p] =
                [h |-> h, ctx |-> ctx, level |-> MethodLevel(method),
                 shared |-> shared,
                 len |-> IF shared THEN SharedLen ELSE Len(lit),
                 own |-> lit,
                 todo |-> DOMAIN heap[h].contextExtractors.m,
                 passed |-> IF shared THEN SubSeq(SharedInit, 1, SharedLen)
                            ELSE lit]]
    /\ pc' = [pc EXCEPT ![p] = "emit"]
    /\ UNCHANGED <<moduleLoggers, heap, call, arr, sinks, crashed, returned,
                   origin>>

\* setValueFromContext, one iteration of the range loop (the order of a
\* map range is unspecified).
setValueFromContext(p) ==
    /\ ~crashed
    /\ pc[p] = "emit"
    /\ \E key \in emit[p].todo :
          LET v == Extract(heap[emit[p].h].contextExtractors.m[key], emit[p].ctx)
              r == AppendArg(emit[p], Attr(key, v))
          IN  /\ emit' = [emit EXCEPT ![p] = [r.e EXCEPT !.todo = @ \ {key}]]
              /\ arr' = r.arr
    /\ UNCHANGED <<moduleLoggers, heap, pc, call, sinks, crashed, quota,
                   returned, origin>>

\* c.Logger.XxxContext(ctx, msg, args...): the backend drops the record
\* below the handle's level, else formats it and writes it to the sink in
\* one Write under the handler's mutex; a nil sink panics there.
EmitLog(p) ==
    /\ ~crashed
    /\ pc[p] = "emit"
    /\ emit[p].todo = {}
    /\ LET e == emit[p]
           lg == heap[e.h]
           line == [module |-> lg.module, level |-> e.level,
                    source |-> lg.addSource, fields |-> ArgsToAttrs(Args(e)),
                    h |-> e.h, ctx |-> e.ctx, passed |-> e.passed]
       IN  IF e.level < lg.level
           THEN UNCHANGED <<sinks, crashed>>
           ELSE IF lg.output = NilWriter
           THEN crashed' = TRUE /\ UNCHANGED sinks
           ELSE /\ sinks' = [sinks EXCEPT ![lg.output] = Append(@, line)]
                /\ UNCHANGED crashed
    /\ emit' = [emit EXCEPT ![p] = NoEmit]
    /\ pc' = [pc EXCEPT ![p] = "idle"]
    /\ UNCHANGED <<moduleLoggers, heap, call, arr, quota, returned, origin>>

InitWith(reg) ==
    /\ moduleLoggers = [k \in {} |-> 0]
    /\ heap = <<>>
    /\ pc = [p \in Procs |-> "idle"]
    /\ call = [p \in Procs |-> NoCall]
    /\ arr = SharedInit
    /\ emit = [p \in Procs |-> NoEmit]
    /\ sinks = [w \in {Stdout, Buf} |-> <<>>]
    /\ crashed = FALSE
    /\ quota = [reg |-> reg, emit |-> MaxEmits]
    /\ returned = [m \in Names |-> {}]
    /\ origin = <<>>

Init == InitWith(MaxCalls)

RegistryStep(p) ==
    \/ RegisterCall(p)
    \/ RegisterLoad(p)
    \/ RegisterStore(p)
    \/ GetLogger(p)
    \/ Default(p)

\* The registry under concurrent callers.
Next == \E p \in Procs : RegistryStep(p)

Spec == Init /\ [][Next]_vars

\* The registry under one goroutine: the calls do not overlap.
SeqNext == RegistryStep(1)

SeqSpec == Init /\ [][SeqNext]_vars

\* Emission under concurrent callers, after at most MaxSetup registrations.
EmitInit == InitWith(MaxSetup)

EmitStep(p) ==
    \/ RegisterCall(p)
    \/ RegisterLoad(p)
    \/ RegisterStore(p)
    \/ EmitCall(p)
    \/ setValueFromContext(p)
    \/ EmitLog(p)

EmitNext == \E p \in Procs : EmitStep(p)

EmitSpec == EmitInit /\ [][EmitNext]_vars

\* =============================================================== claims
Done(p, op) == call[p].done /\ call[p].op = op

\* The handle h carries the level, sink and extractor set of options o
\* (the defaults when o is nil).
ConfiguredFrom(h, o) ==
    IF o.ptr = "nil"
    THEN /\ heap[h].level = LevelInfo
         /\ heap[h].output = Stdout
         /\ heap[h].contextExtractors = EmptyMap
    ELSE /\ heap[h].level = o.level
         /\ heap[h].output = o.output
         /\ heap[h].contextExtractors = o.contextExtractors

\* C1: under non-overlapping calls, a Register(m, o2) that follows a call
\* which returned a handle for m returns that identical handle and
\* constructs nothing, and the handle still carries the level, sink and
\* extractor set of the options it was constructed from (o1), not of o2; a
\* Register that constructs the handle configures it from its own options.
C1_RegisterTwice ==
    \A p \in Procs :
        Done(p, "Register") =>
            /\ call[p].created => ConfiguredFrom(call[p].h, call[p].options)
            /\ call[p].seen # {} =>
                  /\ call[p].seen = {call[p].h}
                  /\ ~call[p].created
                  /\ ConfiguredFrom(call[p].h, origin[call[p].h])

\* A second Register for a name has returned, passed options with another
\* sink than the handle's.
C1_Witness ==
    \E p \in Procs :
        /\ Done(p, "Register")
        /\ call[p].seen # {}
        /\ call[p].options # origin[call[p].h]
        /\ call[p].options.output = Buf
        /\ heap[call[p].h].output = Stdout

\* C2: all Register calls for one module name return one and the same
\* handle, and it is the handle the registry holds for the name.
C2_AtomicGetOrCreate ==
    \A p, q \in Procs :
        (/\ Done(p, "Register") /\ Done(q, "Register")
         /\ call[p].moduleName = call[q].moduleName)
        => /\ call[p].h = call[q].h
           /\ moduleLoggers[call[p].moduleName] = call[p].h

\* C3: once a call has returned handle h for a module name, every call that
\* starts later for that name returns found = true and that same h.
C3_EntryNeverReplaced ==
    \A p \in Procs :
        call[p].done =>
            \A h \in call[p].seen : call[p].ok /\ call[p].h = h

DefaultHandles == {h \in DOMAIN heap : heap[h].moduleName = defaultModuleName}

C5_GetLoggerPure ==
    [][\A p \in Procs :
          (call'[p] # call[p] /\ call'[p].op = "GetLogger") =>
              LET m == IF call'[p].name = "" THEN "default" ELSE call'[p].name
              IN  /\ moduleLoggers' = moduleLoggers
                  /\ heap' = heap
                  /\ call'[p].done
                  /\ IF m \in DOMAIN moduleLoggers
                     THEN /\ call'[p].ok
                          /\ call'[p].h = moduleLoggers[m]
                          /\ call'[p].h \in returned[m]
                     ELSE /\ ~call'[p].ok
                          /\ call'[p].h = 0]_vars

\* One GetLogger has found a handle and another has found none.
C5_Witness ==
    \E p, q \in Procs :
        /\ Done(p, "GetLogger") /\ call[p].ok /\ call[p].h # 0
        /\ Done(q, "GetLogger") /\ ~call[q].ok /\ call[q].h = 0

\* C6: under non-overlapping calls, Default() returns a non-nil handle named
\* "default" that the registry holds; when no handle was returned for
\* "default" before, the call constructs it from the full default options;
\* otherwise it returns the handle already there and constructs nothing.
C6_DefaultLazySingleton ==
    \A p \in Procs :
        Done(p, "Default") =>
            /\ call[p].h # 0
            /\ heap[call[p].h].moduleName = "default"
            /\ "default" \in DOMAIN moduleLoggers
            /\ moduleLoggers["default"] = call[p].h
            /\ call[p].seen = {} =>
                  /\ call[p].created
                  /\ heap[call[p].h].level = LevelInfo
                  /\ heap[call[p].h].addSource
                  /\ heap[call[p].h].output = Stdout
                  /\ heap[call[p].h].contextExtractors = EmptyMap
            /\ call[p].seen # {} =>
                  /\ ~call[p].created
                  /\ call[p].seen = {call[p].h}

\* A Default() call found the handle an earlier Default() constructed.
C6_Witness ==
    \E p \in Procs :
        /\ Done(p, "Default")
        /\ ~call[p].created
        /\ call[p].seen = {call[p].h}
        /\ origin[call[p].h] = NilOptions
        /\ heap[call[p].h].output = Stdout

Lines == {sinks[w][i] : w \in {Stdout}, i \in 1..Len(sinks[Stdout])}
            \cup {sinks[w][i] : w \in {Buf}, i \in 1..Len(sinks[Buf])}

HasField(line, k, v) ==
    \E j \in 1..Len(line.fields) : line.fields[j] = Field(k, v)

\* C7: every emitted record has, for each key k of the handle's extractor
\* set, a top-level field k holding what k's extractor returns for the
\* call's context, alongside the caller's key/value pairs and the module
\* field.
C7_ExtractedFields ==
    \A line \in Lines :
        /\ line.module = heap[line.h].moduleName
        /\ \A k \in DOMAIN heap[line.h].contextExtractors.m :
              HasField(line, k, Str(line.ctx[k]))
        /\ \A i \in 1..Len(line.passed) :
              (i % 2 = 1 /\ i < Len(line.passed)) =>
                  HasField(line, line.passed[i].value, line.passed[i + 1])

\* C8: every record in a sink is one whole record that carries the module
\* field of its handle and, under the extractor keys, the values of its own
\* call's context only.
C8_RecordsOfOwnCall ==
    \A line \in Lines :
        /\ line.module = heap[line.h].moduleName
        /\ \A j \in 1..Len(line.fields) :
              line.fields[j].key \in ExtractorKeys =>
                  line.fields[j].val = Str(line.ctx[line.fields[j].key])

\* C9: every handle Register returns has a non-nil output sink, and no
\* emission fails.
C9_NothingFails ==
    /\ \A p \in Procs :
          Done(p, "Register") => heap[call[p].h].output # NilWriter
    /\ ~crashed

\* C9, the emission part alone: no emission on a registered handle panics.
C9_EmissionNeverPanics == ~crashed

\* C10: an emission never writes to the argument slice of its caller: the
\* backing array the callers share keeps its elements.
C10_ArgsUntouched == arr = SharedInit
====
